---- MODULE Spec2Model ----
(***************************************************************************)
(* Model of SIR() in corona_simulation_ris.py: a day-stepped SIRD epidemic *)
(* on a contact graph.  One run of SIR is one behaviour; the arguments     *)
(* (graph, start_node, R, death_rate) are chosen in Init.  Random draws    *)
(* (np.random.normal, np.random.rand) are nondeterministic choices.        *)
(***************************************************************************)
EXTENDS Integers, Sequences, FiniteSets, TLC

\* ---------------------------------------------------------------- bounds
NumNodes == 4        \* nodes of the graph are 1..NumNodes
MaxSeeds == 2        \* longest start_node list
MaxDur == 1        \* largest infectious duration drawn

Nodes == 1..NumNodes

\* an identifier that is in no graph of the model
UnknownNode == NumNodes + 1

\* the path 1 - 2 - ... - n
PathEdges(n) == {{k, k + 1} : k \in 1..(n - 1)}

\* the graphs handed to SIR: the path over all nodes, and the path with the
\* last node left isolated (degree 0, no path to the others)
Graphs == {PathEdges(NumNodes), PathEdges(NumNodes - 1)}

\* the identifiers a start_node list is made of: an end of the path, an inner
\* node, the last node (isolated in one graph) and an unknown identifier
SeedIds == {UnknownNode, 1, 2, NumNodes}

\* the start_node lists handed to SIR (repeats and unknown ids included)
SeedLists == UNION {[1..k -> SeedIds] : k \in 0..MaxSeeds}

\* the (R, death_rate) pairs handed to SIR, R in tenths (22 is the default 2.2)
\* and death_rate in hundredths (5 is the default 1/20); R <= 0 and death
\* rates outside [0, 1] included
Params == {<<22, 5>>, <<22, 0>>, <<5, 100>>, <<0, 150>>, <<-10, -5>>}

\* max(1, int(np.random.normal(14, 3.5, 1))): any integer >= 1
Durations == 1..MaxDur

VARIABLES
  edges,                 \* G_copy's edge set
  start_node,            \* argument
  R,                     \* argument, in tenths
  death_rate,            \* argument, in hundredths
  color,                 \* node attribute 'color'
  infected_days,         \* node attribute 'infected_days'
  total_infection_time,  \* node attribute 'total_infection_time'
  day,
  infected,              \* the infected pool (a list)
  newly_infected,
  new_dead,
  new_recovered,
  n_infected,
  n_recovered,
  n_dead,
  recovered_nodes,
  dead_nodes,
  uninfected_nodes,
  snapshots,             \* the calls of save_fig so far: day and colours drawn
  pc,                    \* position in SIR
  idx,                   \* position of the running for-loop in its list
  error,                 \* the exception that ended the run, "" if none
  passes,                \* per node: how often the body of `for i in infected` ran for it
  days_at_start          \* per node: infected_days when the running day-step began

vars == <<edges, start_node, R, death_rate, color, infected_days,
          total_infection_time, day, infected, newly_infected, new_dead,
          new_recovered, n_infected, n_recovered, n_dead, recovered_nodes,
          dead_nodes, uninfected_nodes, snapshots, pc, idx, error, passes,
          days_at_start>>

\* ---------------------------------------------------------------- helpers
Range(s) == {s[k] : k \in 1..Len(s)}

\* the ascending list of a set of integers (np.setdiff1d returns sorted unique
\* values): its k-th entry is the element with k - 1 smaller elements
SortedSeq(S) ==
  [k \in 1..Cardinality(S) |->
     CHOOSE x \in S : Cardinality({y \in S : y < x}) = k - 1]

\* np.setdiff1d(a, b): the sorted unique values of a that are not in b
setdiff1d(a, b) == SortedSeq(Range(a) \ Range(b))

\* every other node taken for a neighbour
NeighborsAll(i) == Nodes \ {i}

\* list(G_copy.neighbors(i)), in ascending order
Neighbors(i) == {j \in Nodes : {i, j} \in edges}

\* degree_list.get(i)
Degree(i) == Cardinality(Neighbors(i))

\* the outcomes of `np.random.rand(1) < num/den` for a draw in [0, 1)
Bernoulli(num, den) ==
  IF num >= den THEN {TRUE}
  ELSE IF num <= 0 THEN {FALSE}
  ELSE BOOLEAN

\* the frame drawn without the colour information of line 168
save_fig_plain(snaps, d, col) ==
  Append(snaps, [day |-> d, color |-> [n \in Nodes |-> "yellow"]])

\* save_fig(G_copy, positions, day, ...): one frame of the current colours
save_fig(snaps, d, col) == Append(snaps, [day |-> d, color |-> col])

\* ---------------------------------------------------------------- Init
Init ==
  /\ edges \in Graphs
  /\ start_node \in SeedLists
  /\ \E p \in Params : R = p[1] /\ death_rate = p[2]
  /\ color = [n \in Nodes |-> "yellow"]
  /\ infected_days = [n \in Nodes |-> 0]
  /\ total_infection_time = [n \in Nodes |-> 0]
  /\ day = -2
  /\ infected = <<>>
  /\ newly_infected = <<>>
  /\ new_dead = 0
  /\ new_recovered = 0
  /\ n_infected = <<>>
  /\ n_recovered = <<>>
  /\ n_dead = <<>>
  /\ recovered_nodes = <<>>
  /\ dead_nodes = <<>>
  /\ uninfected_nodes = <<>>
  /\ snapshots = <<>>
  /\ pc = "start"
  /\ idx = 1
  /\ error = ""
  /\ passes = [n \in Nodes |-> 0]
  /\ days_at_start = [n \in Nodes |-> 0]

\* ---------------------------------------------------------------- SIR
\* lines 44-55: attributes set (Init), day = -1, first figure before infection
Begin ==
  /\ pc = "start"
  /\ day' = -1
  /\ snapshots' = save_fig(snapshots, -1, color)
  /\ infected' = <<>>
  /\ idx' = 1
  /\ pc' = "seed"
  /\ UNCHANGED <<days_at_start, edges, start_node, R, death_rate, color, infected_days,
                 total_infection_time, newly_infected, new_dead, new_recovered,
                 n_infected, n_recovered, n_dead, recovered_nodes, dead_nodes,
                 uninfected_nodes, error, passes>>

\* lines 59-66, one iteration of `for i in start_node` with i a node of the
\* graph, the duration drawn from D
SeedNodeWith(D) ==
  /\ pc = "seed"
  /\ idx <= Len(start_node)
  /\ start_node[idx] \in Nodes
  /\ LET i == start_node[idx] IN
       \E d \in D :
         /\ infected' = Append(infected, i)
         /\ color' = [color EXCEPT ![i] = "red"]
         /\ infected_days' = [infected_days EXCEPT ![i] = d]
         /\ total_infection_time' = [total_infection_time EXCEPT ![i] = d]
  /\ idx' = idx + 1
  /\ UNCHANGED <<days_at_start, edges, start_node, R, death_rate, day, newly_infected, new_dead,
                 new_recovered, n_infected, n_recovered, n_dead, recovered_nodes,
                 dead_nodes, uninfected_nodes, snapshots, pc, error, passes>>

\* lines 59-66 with durations up to MaxDur
SeedNode == SeedNodeWith(Durations)

\* lines 61-64 with i not in the graph: appended to the pool, then
\* G_copy.nodes[i] raises KeyError
SeedUnknown ==
  /\ pc = "seed"
  /\ idx <= Len(start_node)
  /\ start_node[idx] \notin Nodes
  /\ infected' = Append(infected, start_node[idx])
  /\ pc' = "crashed"
  /\ error' = "KeyError"
  /\ UNCHANGED <<days_at_start, edges, start_node, R, death_rate, color, infected_days,
                 total_infection_time, day, newly_infected, new_dead,
                 new_recovered, n_infected, n_recovered, n_dead, recovered_nodes,
                 dead_nodes, uninfected_nodes, snapshots, idx, passes>>

\* lines 68-81: the seeding loop is over; counters, day = 0, second figure
Onset ==
  /\ pc = "seed"
  /\ idx > Len(start_node)
  /\ n_infected' = <<Len(infected)>>
  /\ recovered_nodes' = <<>>
  /\ n_recovered' = <<>>
  /\ dead_nodes' = <<>>
  /\ n_dead' = <<>>
  /\ day' = 0
  /\ snapshots' = save_fig(snapshots, 0, color)
  /\ pc' = "while"
  /\ UNCHANGED <<days_at_start, edges, start_node, R, death_rate, color, infected_days,
                 total_infection_time, infected, newly_infected, new_dead,
                 new_recovered, uninfected_nodes, idx, error, passes>>

\* lines 84-88: the while condition holds, a day-step starts
DayStart ==
  /\ pc = "while"
  /\ Len(infected) # 0
  /\ newly_infected' = <<>>
  /\ new_dead' = 0
  /\ new_recovered' = 0
  /\ days_at_start' = infected_days
  /\ idx' = 1
  /\ pc' = "for"
  /\ UNCHANGED <<edges, start_node, R, death_rate, color, infected_days,
                 total_infection_time, day, infected, n_infected, n_recovered,
                 n_dead, recovered_nodes, dead_nodes, uninfected_nodes,
                 snapshots, error, passes>>

\* the for-loop running over the pool as it grows during the day
IterListLive(pool, newly) == pool \o newly

\* line 91: the list the for-loop of a day-step runs over
IterList(pool, newly) == pool

\* the colour test of line 102 left out
CanInfectAny(c) == TRUE

\* line 102: a neighbour is open to infection
CanInfect(c) == c = "yellow"

\* lines 94, 103: the outcomes of `np.random.rand(1) < beta` for pool node i,
\* beta = R / degree / total_infection_time with R in tenths
BetaOutcomes(i) == Bernoulli(R, 10 * Degree(i) * total_infection_time[i])

\* lines 100-111: the sets of neighbours node i may infect in one pass
InfectionOutcomes(i) ==
  {S \in SUBSET {j \in Neighbors(i) : CanInfect(color[j])} :
     \A j \in {k \in Neighbors(i) : CanInfect(color[k])} :
        (j \in S) \in BetaOutcomes(i)}

\* line 117: a day passes for node i
ShouldDecrement(c, days_infected_i) == c = "red" /\ days_infected_i # 0

\* line 121: the infection has run its course
ShouldResolve(c, days_infected_i) == c = "red" /\ days_infected_i = 0

\* the comparison of line 122 the other way round
DeathOutcomesInverted == Bernoulli(100 - death_rate, 100)

\* line 122: the outcomes of `np.random.rand(1) < death_rate`
DeathOutcomes == Bernoulli(death_rate, 100)

\* lines 122-126: dead_nodes after node i is resolved
DeadAfter(dead, i, dies) == IF dies THEN Append(dead, i) ELSE dead

\* the `else` of line 128 left out: every resolved node is appended
RecoveredAlways(recovered, i, dies) == Append(recovered, i)

\* lines 128-131: recovered_nodes after node i is resolved
RecoveredAfter(recovered, i, dies) == IF dies THEN recovered ELSE Append(recovered, i)

\* lines 91-131, one iteration of `for i in infected` for a node of degree > 0,
\* the durations of the newly infected drawn from D
ProcessNodeWith(D) ==
  /\ pc = "for"
  /\ idx <= Len(IterList(infected, newly_infected))
  /\ LET i == IterList(infected, newly_infected)[idx]
         days_infected_i == infected_days[i]
     IN
       /\ Degree(i) * total_infection_time[i] # 0
       /\ \E S \in InfectionOutcomes(i) :
          \E dur \in [S -> D] :
            LET colored == [n \in Nodes |-> IF n \in S THEN "red" ELSE color[n]]
                resolve == ShouldResolve(colored[i], days_infected_i)
            IN
              \E dies \in (IF resolve THEN DeathOutcomes ELSE {FALSE}) :
                /\ newly_infected' = newly_infected \o SortedSeq(S)
                /\ infected_days' =
                     [n \in Nodes |->
                        IF n \in S THEN dur[n]
                        ELSE IF n = i /\ ShouldDecrement(colored[i], days_infected_i)
                          THEN days_infected_i - 1
                        ELSE infected_days[n]]
                /\ total_infection_time' =
                     [n \in Nodes |-> IF n \in S THEN dur[n] ELSE total_infection_time[n]]
                /\ color' =
                     IF resolve
                       THEN [colored EXCEPT ![i] = IF dies THEN "black" ELSE "blue"]
                       ELSE colored
                /\ dead_nodes' =
                     IF resolve THEN DeadAfter(dead_nodes, i, dies) ELSE dead_nodes
                /\ recovered_nodes' =
                     IF resolve THEN RecoveredAfter(recovered_nodes, i, dies)
                     ELSE recovered_nodes
                /\ new_dead' = IF resolve /\ dies THEN new_dead + 1 ELSE new_dead
                /\ new_recovered' =
                     IF resolve /\ ~dies THEN new_recovered + 1 ELSE new_recovered
       /\ passes' = [passes EXCEPT ![i] = @ + 1]
  /\ idx' = idx + 1
  /\ UNCHANGED <<days_at_start, edges, start_node, R, death_rate, day, infected, n_infected,
                 n_recovered, n_dead, uninfected_nodes, snapshots, pc, error>>

\* lines 91-131 with durations up to MaxDur
ProcessNode == ProcessNodeWith(Durations)

\* line 94 for a pool node of degree 0: R / 0 raises ZeroDivisionError
ProcessDegreeZero ==
  /\ pc = "for"
  /\ idx <= Len(IterList(infected, newly_infected))
  /\ LET i == IterList(infected, newly_infected)[idx] IN
       Degree(i) * total_infection_time[i] = 0
  /\ pc' = "crashed"
  /\ error' = "ZeroDivisionError"
  /\ UNCHANGED <<days_at_start, edges, start_node, R, death_rate, color, infected_days,
                 total_infection_time, day, infected, newly_infected, new_dead,
                 new_recovered, n_infected, n_recovered, n_dead, recovered_nodes,
                 dead_nodes, uninfected_nodes, snapshots, idx, passes>>

\* the subtraction of dead_nodes (line 143) left out
NextPoolKeepDead(pool, newly, recovered, dead) ==
  setdiff1d(pool \o newly, recovered)

\* lines 139-143: the new infected pool
NextPool(pool, newly, recovered, dead) ==
  setdiff1d(setdiff1d(pool \o newly, recovered), dead)

\* the day counter stepping by two
NextDaySkip(d) == d + 2

\* line 146
NextDay(d) == d + 1

\* lines 133-147: the for-loop is over; counters, pool, day, figure
EndDay ==
  /\ pc = "for"
  /\ idx > Len(IterList(infected, newly_infected))
  /\ n_dead' = Append(n_dead, new_dead)
  /\ n_recovered' = Append(n_recovered, new_recovered)
  /\ n_infected' = Append(n_infected, Len(newly_infected))
  /\ infected' = NextPool(infected, newly_infected, recovered_nodes, dead_nodes)
  /\ day' = NextDay(day)
  /\ snapshots' = save_fig(snapshots, NextDay(day), color)
  /\ pc' = "while"
  /\ UNCHANGED <<days_at_start, edges, start_node, R, death_rate, color, infected_days,
                 total_infection_time, newly_infected, new_dead, new_recovered,
                 recovered_nodes, dead_nodes, uninfected_nodes, idx, error, passes>>

\* the subtraction of dead_nodes (line 153) left out
UninfectedKeepDead(recovered, dead) == setdiff1d(SortedSeq(Nodes), recovered)

\* lines 152-153: the graph's nodes minus recovered_nodes minus dead_nodes
UninfectedNodes(recovered, dead) ==
  setdiff1d(setdiff1d(SortedSeq(Nodes), recovered), dead)

\* lines 151-155: the pool is empty, the loop exits and SIR returns
Return ==
  /\ pc = "while"
  /\ Len(infected) = 0
  /\ uninfected_nodes' = UninfectedNodes(recovered_nodes, dead_nodes)
  /\ pc' = "done"
  /\ UNCHANGED <<days_at_start, edges, start_node, R, death_rate, color, infected_days,
                 total_infection_time, day, infected, newly_infected, new_dead,
                 new_recovered, n_infected, n_recovered, n_dead, recovered_nodes,
                 dead_nodes, snapshots, idx, error, passes>>

Next ==
  \/ Begin
  \/ SeedNode
  \/ SeedUnknown
  \/ Onset
  \/ DayStart
  \/ ProcessNode
  \/ ProcessDegreeZero
  \/ EndDay
  \/ Return

Spec == Init /\ [][Next]_vars

\* the draws of line 65 and line 109 reaching one day further
LongDurations == 1..(MaxDur + 1)

SeedNodeLong == SeedNodeWith(LongDurations)

ProcessNodeLong == ProcessNodeWith(LongDurations)

NextLong ==
  \/ Begin
  \/ SeedNodeLong
  \/ SeedUnknown
  \/ Onset
  \/ DayStart
  \/ ProcessNodeLong
  \/ ProcessDegreeZero
  \/ EndDay
  \/ Return

\* SIR with infectious durations of more than one day
SpecLong == Init /\ [][NextLong]_vars

\* SIR is one sequential call: it keeps running until it returns or raises
FairSpec == Spec /\ WF_vars(Next)

\* ---------------------------------------------------------------- claims
Susceptible == {n \in Nodes : color[n] = "yellow"}

Resolved == {n \in Nodes : color[n] \in {"blue", "black"}}

IsPrefix(s, t) == Len(s) <= Len(t) /\ \A k \in 1..Len(s) : s[k] = t[k]

NoRepeat(s) == \A k, l \in 1..Len(s) : s[k] = s[l] => k = l

\* C1: at every day boundary the infected pool, the Recovered list, the Dead
\* list and the yellow nodes are pairwise disjoint and cover the node set, and
\* len(infected) + len(recovered) + len(dead) + |yellow| = number of nodes.
C1_Conservation ==
  pc = "while" =>
    /\ Range(infected) \cap Range(recovered_nodes) = {}
    /\ Range(infected) \cap Range(dead_nodes) = {}
    /\ Range(infected) \cap Susceptible = {}
    /\ Range(recovered_nodes) \cap Range(dead_nodes) = {}
    /\ Range(recovered_nodes) \cap Susceptible = {}
    /\ Range(dead_nodes) \cap Susceptible = {}
    /\ Range(infected) \cup Range(recovered_nodes) \cup Range(dead_nodes)
         \cup Susceptible = Nodes
    /\ Len(infected) + Len(recovered_nodes) + Len(dead_nodes)
         + Cardinality(Susceptible) = NumNodes

\* a node's colour stays, or moves yellow -> red, or red -> blue / black
Forward(c, d) ==
  \/ d = c
  \/ c = "yellow" /\ d = "red"
  \/ c = "red" /\ d \in {"blue", "black"}

\* C2: every step of SIR changes a node's state only along Susceptible ->
\* Infected -> {Recovered, Dead}; nothing returns to Susceptible, nothing skips
\* Infected, and Recovered and Dead are kept for the rest of the run.
C2_ForwardOnly == [][\A n \in Nodes : Forward(color[n], color'[n])]_vars

\* a run that ended with a recovered, a dead and a never-infected node
C2_Witness ==
  /\ pc = "done"
  /\ \E n \in Nodes : color[n] = "blue"
  /\ \E n \in Nodes : color[n] = "black"
  /\ \E n \in Nodes : color[n] = "yellow"

\* C3: once the while loop is reached it terminates: the pool reaches size 0
\* after finitely many day-steps and SIR leaves the loop.
C3_Terminates == (pc = "while") ~> (pc = "done" /\ Len(infected) = 0)

\* C4: a node is resolved in the pass that brings its infected_days to 0: no
\* node is left Infected with infected_days = 0, and a resolved node has been
\* through exactly total_infection_time passes of the for-loop.
C4_ResolvedOnDthStep ==
  \A n \in Nodes :
    /\ color[n] = "red" => infected_days[n] > 0
    /\ n \in Resolved => passes[n] = total_infection_time[n]

\* C5: a pool node of degree 0 does not crash SIR.
C5_DegreeZeroNoCrash == ~(pc = "crashed" /\ error = "ZeroDivisionError")

\* C6: when a seed is not in the graph, nothing has happened at the moment the
\* error is raised: no node Infected, no timer set, no snapshot emitted.
C6_UnknownSeedNoMutation ==
  error = "KeyError" =>
    /\ snapshots = <<>>
    /\ \A n \in Nodes :
         /\ color[n] = "yellow"
         /\ infected_days[n] = 0
         /\ total_infection_time[n] = 0

\* C7: with R <= 0 or death_rate outside [0, 1] SIR is rejected at its start:
\* no snapshot, no node infected, no pass of a day-step.
C7_InvalidParameterRejected ==
  (R <= 0 \/ death_rate < 0 \/ death_rate > 100) =>
    /\ snapshots = <<>>
    /\ \A n \in Nodes : color[n] = "yellow" /\ passes[n] = 0
    /\ pc \in {"start", "crashed"}

\* C8: recovered_nodes and dead_nodes only grow by appending, and no node
\* occurs twice in the two lists together.
C8_AppendOnly ==
  [][/\ IsPrefix(recovered_nodes, recovered_nodes')
     /\ IsPrefix(dead_nodes, dead_nodes')
     /\ NoRepeat(recovered_nodes' \o dead_nodes')]_vars

\* a run that ended with two recovered nodes and a dead one
C8_Witness ==
  /\ pc = "done"
  /\ Len(recovered_nodes) >= 2
  /\ Len(dead_nodes) >= 1

\* C9: a node infected during a day-step is not in the list that day-step
\* runs over, has been through no pass of the for-loop and has had no
\* decrement; at the next day boundary it is in the pool.
C9_NewlyInfectedWait ==
  /\ \A n \in Range(newly_infected) :
       /\ passes[n] = 0
       /\ infected_days[n] = total_infection_time[n]
       /\ pc = "for" => n \notin Range(infected)
       /\ pc = "while" => n \in Range(infected)

\* the passes of a day-step are over and a node was infected in it
C9_Witness ==
  /\ pc = "for"
  /\ idx > Len(infected)
  /\ Len(newly_infected) >= 1

\* C10: save_fig is called once per day index, -1, 0, 1, ... up to the current
\* day, in that order; from the onset on the number of calls is the number of
\* completed day-steps plus 2.
C10_SnapshotPerDay ==
  /\ pc = "start" => snapshots = <<>>
  /\ pc # "start" =>
       /\ Len(snapshots) = day + 2
       /\ \A k \in 1..Len(snapshots) : snapshots[k].day = k - 2
  /\ pc \in {"while", "for", "done"} => Len(snapshots) = Len(n_dead) + 2

\* a run that ended after at least two day-steps
C10_Witness ==
  /\ pc = "done"
  /\ Len(n_dead) >= 2
  /\ Len(snapshots) >= 4


\* C11: with death_rate = 1 every resolved infection yields Dead: the
\* Recovered list stays empty and every per-day newly-recovered count is 0.
C11_DeathRateOne ==
  death_rate = 100 =>
    /\ recovered_nodes = <<>>
    /\ new_recovered = 0
    /\ \A k \in 1..Len(n_recovered) : n_recovered[k] = 0
    /\ \A n \in Nodes : color[n] # "blue"

\* a run with death_rate = 1 that ended with two nodes resolved
C11_Witness ==
  /\ death_rate = 100
  /\ pc = "done"
  /\ Len(dead_nodes) >= 2


\* the scenario of C13: path 1 - 2 - 3 - 4, seed [2], R = 2.2, death_rate = 0
\* (durations are 1 and beta = 2.2 / degree >= 1 whenever MaxDur = 1)
PathScenario ==
  /\ NumNodes = 4
  /\ edges = PathEdges(4)
  /\ start_node = <<2>>
  /\ R = 22
  /\ death_rate = 0
  /\ \A n \in Nodes : total_infection_time[n] <= 1

\* C13: in the path scenario with every duration 1 and every transmission
\* succeeding, the day 0 snapshot shows node 2 Infected and the others
\* Susceptible, and the day 1 snapshot shows nodes 1 and 3 Infected and node 2
\* Recovered.
C13_PathScenarioDayOne ==
  PathScenario =>
    /\ Len(snapshots) >= 2 =>
         snapshots[2].color =
           [n \in Nodes |-> IF n = 2 THEN "red" ELSE "yellow"]
    /\ Len(snapshots) >= 3 =>
         snapshots[3].color =
           [n \in Nodes |-> IF n \in {1, 3} THEN "red"
                            ELSE IF n = 2 THEN "blue" ELSE "yellow"]


\* C14: when SIR returns, uninfected_nodes holds exactly the nodes that are
\* still Susceptible (never infected), each once: no node that was ever
\* Infected is in it and every Susceptible node is.
C14_UninfectedAreSusceptible ==
  pc = "done" =>
    /\ Range(uninfected_nodes) = Susceptible
    /\ NoRepeat(uninfected_nodes)
    /\ \A n \in Nodes :
         (total_infection_time[n] > 0 \/ passes[n] > 0) =>
            n \notin Range(uninfected_nodes)

\* SIR returned with a dead node, a recovered node and a node never infected
C14_Witness ==
  /\ pc = "done"
  /\ Len(dead_nodes) >= 1
  /\ Len(recovered_nodes) >= 1
  /\ Len(uninfected_nodes) >= 1


\* the nodes resolved in the running day-step: the last new_recovered entries
\* of recovered_nodes and the last new_dead entries of dead_nodes
ResolvedToday ==
  {recovered_nodes[k] :
     k \in (Len(recovered_nodes) - new_recovered + 1)..Len(recovered_nodes)}
  \cup
  {dead_nodes[k] : k \in (Len(dead_nodes) - new_dead + 1)..Len(dead_nodes)}

C16_Timers ==
  [][\A n \in Nodes :
       /\ 0 <= infected_days'[n]
       /\ infected_days'[n] <= total_infection_time'[n]
       /\ color'[n] # "yellow" => total_infection_time'[n] >= 1
       /\ color[n] # "yellow" => total_infection_time'[n] = total_infection_time[n]
       /\ pc' = "for" => days_at_start'[n] - infected_days'[n] <= 1]_vars


RECURSIVE SumSeq(_)
\* sum(s) of a list of numbers
SumSeq(s) == IF s = <<>> THEN 0 ELSE s[1] + SumSeq(Tail(s))

\* C17: at a day boundary after k day-steps n_dead and n_recovered have k
\* entries and n_infected has k + 1, the first being the number of seeds;
\* sum(n_dead) = len(dead_nodes), sum(n_recovered) = len(recovered_nodes), and
\* when SIR returns sum(n_infected) = len(dead_nodes) + len(recovered_nodes).
C17_SeriesConsistent ==
  pc \in {"while", "done"} =>
    /\ Len(n_dead) = day
    /\ Len(n_recovered) = day
    /\ Len(n_infected) = day + 1
    /\ n_infected[1] = Len(start_node)
    /\ SumSeq(n_dead) = Len(dead_nodes)
    /\ SumSeq(n_recovered) = Len(recovered_nodes)
    /\ pc = "done" =>
         SumSeq(n_infected) = Len(dead_nodes) + Len(recovered_nodes)


RECURSIVE Closure(_)
\* the nodes joined to a node of S by a path of edges
Closure(S) ==
  LET T == S \cup {m \in Nodes : \E n \in S : {n, m} \in edges}
  IN IF T = S THEN S ELSE Closure(T)

\* the nodes with no path to any seed node
Unreachable == Nodes \ Closure(Range(start_node) \cap Nodes)

\* C18: in a day-step a Susceptible node becomes Infected only if one of its
\* neighbours is in the pool the day-step began with; a node with no path to
\* a seed stays Susceptible and is in uninfected_nodes when SIR returns.
C18_SpreadAlongEdges ==
  [][/\ \A n \in Nodes :
          (pc = "for" /\ color[n] = "yellow" /\ color'[n] = "red") =>
             \E m \in Range(infected) : {m, n} \in edges
     /\ \A n \in Unreachable : color'[n] = "yellow"
     /\ pc' = "done" => Unreachable \subseteq Range(uninfected_nodes')]_vars

\* SIR returned after a transmission, with a node that no seed can reach
C18_Witness ==
  /\ pc = "done"
  /\ Unreachable # {}
  /\ \E k \in 2..Len(n_infected) : n_infected[k] >= 1


\* C19 as stated: the snapshots of day -1 and day 0 show the same node states.
C19_SameStates ==
  Len(snapshots) >= 2 => snapshots[1].color = snapshots[2].color

\* C19: the snapshot of day -1 shows every node Susceptible and the snapshot
\* of day 0 shows the seed nodes Infected and every other node Susceptible
\* (the two agree only for an empty seed list).
C19_SeedsShownAtOnset ==
  /\ Len(snapshots) >= 1 =>
       /\ snapshots[1].day = -1
       /\ snapshots[1].color = [n \in Nodes |-> "yellow"]
  /\ Len(snapshots) >= 2 =>
       /\ snapshots[2].day = 0
       /\ snapshots[2].color =
            [n \in Nodes |-> IF n \in Range(start_node) THEN "red" ELSE "yellow"]

\* the day 0 snapshot was emitted for a run with two different seeds
C19_Witness ==
  /\ Len(snapshots) >= 2
  /\ Len(start_node) = 2
  /\ start_node[1] # start_node[2]

====
